---- MODULE Spec2Model ----
(***************************************************************************)
(* Model of examples/runners/wgpu/src/compute.rs: the one-shot compute     *)
(* harness start_internal.  One action per statement of start_internal,    *)
(* one per turn of its report loop, and one for the GPU, which runs the    *)
(* submitted commands one at a time on its own timeline.                   *)
(*                                                                         *)
(* Number representation.  TLC integers are 32 bit signed, so u32 and u64  *)
(* values are kept as tuples of 16-bit limbs, most significant first:      *)
(* a u32 is <<hi, lo>>, a u64 is <<w3, w2, w1, w0>>.  Buffers hold bytes.  *)
(* The host is little-endian (to_ne_bytes / from_ne_bytes).                *)
(***************************************************************************)
EXTENDS Integers, Sequences, FiniteSets, TLC

VARIABLES
    pc,                 \* position in start_internal
    top,                \* src_range == 1..top (exclusive), N == top - 1
    kernel,             \* the compiled kernel bound as "main_cs"
    timestamp_period,   \* adapter.get_timestamp_period()
    encoder,            \* commands recorded so far
    queue,              \* command buffers handed to queue.submit
    gpu,                \* the GPU's progress through the submitted work
    storage_buffer,     \* bytes of the storage buffer
    readback_buffer,    \* bytes of the staging (readback) buffer
    timestamp_buffer,   \* bytes of the timestamp-resolve buffer
    readback_map,       \* "unmapped" | "pending" | "mapped"
    timestamp_map,      \* "unmapped" | "pending" | "mapped"
    buffer_future,      \* "none" | "waiting" | "ok" | "err"
    timestamp_future,   \* "none" | "waiting" | "ok" | "err"
    polls,              \* number of device.poll(Maintain::Wait) calls
    ranges_read,        \* buffers whose mapped range has been taken
    data,               \* mapped view of the readback buffer
    timing_data,        \* mapped view of the timestamp buffer
    result,             \* Vec<u32>
    timings,            \* Vec<u64>
    max,                \* the running maximum of the report loop
    next_pair,          \* position of the zip iterator of the report loop
    lines               \* stdout

vars == <<pc, top, kernel, timestamp_period, encoder, queue, gpu,
          storage_buffer, readback_buffer, timestamp_buffer, readback_map,
          timestamp_map, buffer_future, timestamp_future, polls, ranges_read,
          data, timing_data, result, timings, max, next_pair, lines>>

\* -------------------------------------------------------- bounds, constants

\* Largest value of top explored; the source fixes top = 2^20.
MaxTop == 130

\* Every top up to SmallTop is explored.
SmallTop == 3

\* The divisor of the dispatch count: the kernel's workgroup size.
WorkgroupSize == 64

\* Size in bytes of the timestamp-resolve buffer.
TimestampBufferSize == 16

\* Number of slots of the timestamp query set.
QueryCount == 2

\* ------------------------------------------------------------- u32 and u64

U32Max == <<65535, 65535>>

U64Max == <<65535, 65535, 65535, 65535>>

U32FromInt(n) == <<n \div 65536, n % 65536>>

U32Gt(a, b) == a[1] > b[1] \/ (a[1] = b[1] /\ a[2] > b[2])

\* u32::to_ne_bytes on a little-endian host
ToNeBytes(v) == <<v[2] % 256, v[2] \div 256, v[1] % 256, v[1] \div 256>>

\* u32::from_ne_bytes on a little-endian host
U32FromNeBytes(b) == <<b[4] * 256 + b[3], b[2] * 256 + b[1]>>

\* u64::from_ne_bytes on a little-endian host
U64FromNeBytes(b) ==
    <<b[8] * 256 + b[7], b[6] * 256 + b[5], b[4] * 256 + b[3], b[2] * 256 + b[1]>>

\* the 8 bytes the GPU writes for one resolved 64-bit tick
U64ToBytes(t) ==
    <<t[4] % 256, t[4] \div 256, t[3] % 256, t[3] \div 256,
      t[2] % 256, t[2] \div 256, t[1] % 256, t[1] \div 256>>

U64Lt(a, b) ==
    \E i \in 1..4 : a[i] < b[i] /\ \A j \in 1..(i - 1) : a[j] = b[j]

\* a - b modulo 2^64 (limb-wise with borrow)
U64WrappingSub(a, b) ==
    LET d0 == a[4] - b[4]
        c0 == IF d0 < 0 THEN 1 ELSE 0
        d1 == a[3] - b[3] - c0
        c1 == IF d1 < 0 THEN 1 ELSE 0
        d2 == a[2] - b[2] - c1
        c2 == IF d2 < 0 THEN 1 ELSE 0
        d3 == a[1] - b[1] - c2
    IN  <<d3 % 65536, d2 % 65536, d1 % 65536, d0 % 65536>>

\* slice.chunks_exact(k): the full chunks only, a short tail is dropped
ChunksExact(bytes, k) ==
    [i \in 1..(Len(bytes) \div k) |-> SubSeq(bytes, (i - 1) * k + 1, i * k)]

RECURSIVE BitLen(_)
BitLen(n) == IF n = 0 THEN 0 ELSE 1 + BitLen(n \div 2)

RECURSIVE Pow2(_)
Pow2(e) == IF e = 0 THEN 1 ELSE 2 * Pow2(e - 1)

\* carry propagation over 5 limbs <<w4, w3, w2, w1, w0>>
Carry5(w) ==
    LET s0 == w[5]
        s1 == w[4] + s0 \div 65536
        s2 == w[3] + s1 \div 65536
        s3 == w[2] + s2 \div 65536
        s4 == w[1] + s3 \div 65536
    IN  <<s4, s3 % 65536, s2 % 65536, s1 % 65536, s0 % 65536>>

\* `x as f64` for a u64 x: round to nearest, ties to even, 53 bits kept.
\* The value is returned as 5 limbs, since u64::MAX rounds up to 2^64.
F64FromU64(t) ==
    LET len == IF t[1] > 0 THEN 48 + BitLen(t[1])
               ELSE IF t[2] > 0 THEN 32 + BitLen(t[2])
               ELSE IF t[3] > 0 THEN 16 + BitLen(t[3])
               ELSE BitLen(t[4])
    IN  IF len <= 53 THEN <<0, t[1], t[2], t[3], t[4]>>
        ELSE LET m    == Pow2(len - 53)
                 r    == t[4] % m
                 even == ((t[4] \div m) % 2) = 0
                 up   == (2 * r > m) \/ (2 * r = m /\ ~even)
             IN  Carry5(<<0, t[1], t[2], t[3], t[4] - r + (IF up THEN m ELSE 0)>>)

\* f64 product with a period that is a small power of two (exact in f64)
F64Mul(f, p) == Carry5(<<f[1] * p, f[2] * p, f[3] * p, f[4] * p, f[5] * p>>)

\* `f as u64`: saturating
U64FromF64(f) == IF f[1] > 0 THEN U64Max ELSE <<f[2], f[3], f[4], f[5]>>

\* ------------------------------------------------------------ the kernel

\* The compiled kernel is an input of the harness.  The kernels explored:
\* the identity, a kernel that always writes the sentinel, a kernel that
\* always writes 0, and a kernel mixing records, non-records and sentinels.
Kernels == {"identity", "sentinel", "zero", "mixed"}

\* one invocation of the kernel on the u32 value v
KernelOut(k, v) ==
    CASE k = "identity" -> v
      [] k = "sentinel" -> U32Max
      [] k = "zero"     -> <<0, 0>>
      [] k = "mixed"    ->
            IF v[2] % 4 = 0 THEN U32Max ELSE <<0, (v[2] * 5) % 8>>

\* ------------------------------------------------- the GPU's command stream

N == top - 1

\* the values a hardware timestamp resolves to here: 0 and 2^53 + 1, the
\* smallest tick that `as f64` rounds
Ticks == {<<0, 0, 0, 0>>, <<32, 0, 0, 1>>}

\* adapter.get_timestamp_period(): nanoseconds per tick
TimestampPeriods == {1, 2}

Zeros(n) == [i \in 1..n |-> 0]

\* the u32 at word index w (0-based) of a byte buffer
WordAt(bytes, w) == U32FromNeBytes(SubSeq(bytes, 4 * w + 1, 4 * w + 4))

\* one dispatch of x workgroups over the bound storage buffer: invocation id
\* transforms word id in place; invocations past the buffer's end do nothing
DispatchOn(bytes, x) ==
    [i \in 1..Len(bytes) |->
        IF (i - 1) \div 4 < x * WorkgroupSize /\ 4 * ((i - 1) \div 4) + 4 <= Len(bytes)
        THEN ToNeBytes(KernelOut(kernel, WordAt(bytes, (i - 1) \div 4)))[((i - 1) % 4) + 1]
        ELSE bytes[i]]

\* the GPU before it has run anything: next is the position in the command
\* buffer, queries the two slots of the query set
GpuIdle ==
    [next |-> 1,
     queries |-> [s \in 0..(QueryCount - 1) |-> <<0, 0, 0, 0>>],
     pass |-> FALSE, bind |-> FALSE, pipeline |-> FALSE]

\* ---------------------------------------------------------- start_internal

\* The values of top explored: the small ones, the ones that put N = top - 1
\* within one of a multiple of the workgroup size, and the largest.
Tops ==
    {t \in 2..MaxTop :
        \/ t <= SmallTop
        \/ (t - 1) % WorkgroupSize \in {WorkgroupSize - 1, 0, 1}
        \/ t = MaxTop}

\* src: the bytes of 1..top, each value through u32::to_ne_bytes
SrcBytes ==
    [i \in 1..(4 * N) |-> ToNeBytes(U32FromInt((i - 1) \div 4 + 1))[((i - 1) % 4) + 1]]

\* src_range.len() as u32 / 64
DispatchCount == N \div WorkgroupSize

Init ==
    /\ pc = "request_adapter"
    /\ top \in Tops
    /\ kernel \in Kernels
    /\ timestamp_period = 0
    /\ encoder = <<>>
    /\ queue = <<>>
    /\ gpu = GpuIdle
    /\ storage_buffer = <<>>
    /\ readback_buffer = <<>>
    /\ timestamp_buffer = <<>>
    /\ readback_map = "unmapped"
    /\ timestamp_map = "unmapped"
    /\ buffer_future = "none"
    /\ timestamp_future = "none"
    /\ polls = 0
    /\ ranges_read = {}
    /\ data = <<>>
    /\ timing_data = <<>>
    /\ result = <<>>
    /\ timings = <<>>
    /\ max = <<0, 0>>
    /\ next_pair = 0
    /\ lines = <<>>

hostVars == <<data, timing_data, result, timings, max, next_pair, lines, ranges_read>>
gpuVars == <<queue, gpu, storage_buffer, readback_buffer, timestamp_buffer>>
mapVars == <<readback_map, timestamp_map, buffer_future, timestamp_future, polls>>
inputVars == <<top, kernel, timestamp_period>>

\* request_adapter(..).await.expect(..), then get_timestamp_period
RequestAdapter ==
    /\ pc = "request_adapter"
    /\ \/ /\ pc' = "panic_adapter"
          /\ UNCHANGED timestamp_period
       \/ /\ pc' = "request_device"
          /\ timestamp_period' \in TimestampPeriods
    /\ UNCHANGED <<top, kernel, encoder, gpuVars, mapVars, hostVars>>

\* request_device(..).await.expect(..)
RequestDevice ==
    /\ pc = "request_device"
    /\ pc' \in {"panic_device", "create_readback_buffer"}
    /\ UNCHANGED <<inputVars, encoder, gpuVars, mapVars, hostVars>>

\* readback_buffer: size src.len(), not mapped at creation, zero-filled
CreateReadbackBuffer ==
    /\ pc = "create_readback_buffer"
    /\ readback_buffer' = Zeros(Len(SrcBytes))
    /\ pc' = "create_storage_buffer"
    /\ UNCHANGED <<inputVars, encoder, queue, gpu, storage_buffer,
                   timestamp_buffer, mapVars, hostVars>>

\* storage_buffer: create_buffer_init with contents src
CreateStorageBuffer ==
    /\ pc = "create_storage_buffer"
    /\ storage_buffer' = SrcBytes
    /\ pc' = "create_timestamp_buffer"
    /\ UNCHANGED <<inputVars, encoder, queue, gpu, readback_buffer,
                   timestamp_buffer, mapVars, hostVars>>

\* timestamp_buffer: 16 bytes
CreateTimestampBuffer ==
    /\ pc = "create_timestamp_buffer"
    /\ timestamp_buffer' = Zeros(TimestampBufferSize)
    /\ pc' = "begin_compute_pass"
    /\ UNCHANGED <<inputVars, encoder, queue, gpu, storage_buffer,
                   readback_buffer, mapVars, hostVars>>

\* one recording call: append the command, move on
Record(at, cmd, next) ==
    /\ pc = at
    /\ encoder' = Append(encoder, cmd)
    /\ pc' = next
    /\ UNCHANGED <<inputVars, gpuVars, mapVars, hostVars>>

BeginComputePass ==
    Record("begin_compute_pass", [op |-> "begin_compute_pass"], "set_bind_group")

SetBindGroup ==
    Record("set_bind_group", [op |-> "set_bind_group", index |-> 0], "set_pipeline")

SetPipeline ==
    Record("set_pipeline", [op |-> "set_pipeline"], "write_timestamp_0")

\* mutant: the first timestamp is written to slot 1
WriteTimestamp0ToSlot1 ==
    Record("write_timestamp_0", [op |-> "write_timestamp", slot |-> 1], "dispatch")

WriteTimestamp0 ==
    Record("write_timestamp_0", [op |-> "write_timestamp", slot |-> 0], "dispatch")

Dispatch ==
    Record("dispatch",
           [op |-> "dispatch", x |-> DispatchCount, y |-> 1, z |-> 1],
           "write_timestamp_1")

WriteTimestamp1 ==
    Record("write_timestamp_1", [op |-> "write_timestamp", slot |-> 1], "end_compute_pass")

\* the compute pass is dropped at the end of its block
EndComputePass ==
    Record("end_compute_pass", [op |-> "end_compute_pass"], "copy_buffer_to_buffer")

\* mutant: copies only the bytes the dispatch has processed
CopyProcessedBytesOnly ==
    Record("copy_buffer_to_buffer",
           [op |-> "copy_buffer_to_buffer",
            size |-> DispatchCount * WorkgroupSize * 4],
           "resolve_query_set")

CopyBufferToBuffer ==
    Record("copy_buffer_to_buffer",
           [op |-> "copy_buffer_to_buffer", size |-> Len(SrcBytes)],
           "resolve_query_set")

ResolveQuerySet ==
    Record("resolve_query_set",
           [op |-> "resolve_query_set", first |-> 0, count |-> QueryCount],
           "submit")

\* mutant: queue.submit(None), the encoder is never finished and submitted
SubmitNothing ==
    /\ pc = "submit"
    /\ pc' = "map_timestamp"
    /\ UNCHANGED <<inputVars, encoder, gpuVars, mapVars, hostVars>>

\* queue.submit(Some(encoder.finish()))
Submit ==
    /\ pc = "submit"
    /\ queue' = Append(queue, encoder)
    /\ pc' = "map_timestamp"
    /\ UNCHANGED <<inputVars, encoder, gpu, storage_buffer, readback_buffer,
                   timestamp_buffer, mapVars, hostVars>>

\* timestamp_slice.map_async(MapMode::Read)
MapTimestamp ==
    /\ pc = "map_timestamp"
    /\ timestamp_future' = "waiting"
    /\ timestamp_map' = "pending"
    /\ pc' = "map_buffer"
    /\ UNCHANGED <<inputVars, encoder, gpuVars, readback_map, buffer_future,
                   polls, hostVars>>

\* buffer_slice.map_async(MapMode::Read)
MapBuffer ==
    /\ pc = "map_buffer"
    /\ buffer_future' = "waiting"
    /\ readback_map' = "pending"
    /\ pc' = "poll"
    /\ UNCHANGED <<inputVars, encoder, gpuVars, timestamp_map, timestamp_future,
                   polls, hostVars>>

\* the GPU has run everything that was submitted
GpuDone == queue = <<>> \/ gpu.next > Len(queue[1])

\* The GPU's own timeline: it runs the next command of the submitted command
\* buffer.  A timestamp write samples the hardware counter.
GpuExecute ==
    /\ queue # <<>>
    /\ gpu.next <= Len(queue[1])
    /\ LET c == queue[1][gpu.next]
       IN  /\ \E t \in Ticks :
                gpu' = [next |-> gpu.next + 1,
                        queries |-> IF c.op = "write_timestamp"
                                    THEN [gpu.queries EXCEPT ![c.slot] = t]
                                    ELSE gpu.queries,
                        pass |-> IF c.op = "begin_compute_pass" THEN TRUE
                                 ELSE IF c.op = "end_compute_pass" THEN FALSE
                                 ELSE gpu.pass,
                        bind |-> IF c.op = "set_bind_group" THEN c.index = 0
                                 ELSE gpu.bind,
                        pipeline |-> IF c.op = "set_pipeline" THEN TRUE
                                     ELSE gpu.pipeline]
           /\ storage_buffer' =
                IF c.op = "dispatch" /\ gpu.pass /\ gpu.bind /\ gpu.pipeline
                THEN DispatchOn(storage_buffer, c.x)
                ELSE storage_buffer
           /\ readback_buffer' =
                IF c.op = "copy_buffer_to_buffer"
                THEN [i \in 1..Len(readback_buffer) |->
                        IF i <= c.size /\ i <= Len(storage_buffer)
                        THEN storage_buffer[i] ELSE readback_buffer[i]]
                ELSE readback_buffer
           /\ timestamp_buffer' =
                IF c.op = "resolve_query_set"
                THEN U64ToBytes(gpu.queries[c.first])
                        \o U64ToBytes(gpu.queries[c.first + 1])
                ELSE timestamp_buffer
    /\ UNCHANGED <<pc, inputVars, encoder, queue, mapVars, hostVars>>

\* the outcome of a map request once its callback fires
Resolved(future, outcome) == IF future = "waiting" THEN outcome ELSE future

MapAfter(state, future, outcome) ==
    IF future = "waiting"
    THEN (IF outcome = "ok" THEN "mapped" ELSE "unmapped")
    ELSE state

\* mutant: device.poll(Maintain::Poll), which does not wait for the GPU and
\* fires the map callbacks only if the work happens to be done already
DevicePollNoWait ==
    /\ pc = "poll"
    /\ \E ob \in {"ok", "err"}, ot \in {"ok", "err"} :
         /\ buffer_future' = IF GpuDone THEN Resolved(buffer_future, ob) ELSE buffer_future
         /\ timestamp_future' =
              IF GpuDone THEN Resolved(timestamp_future, ot) ELSE timestamp_future
         /\ readback_map' =
              IF GpuDone THEN MapAfter(readback_map, buffer_future, ob) ELSE readback_map
         /\ timestamp_map' =
              IF GpuDone THEN MapAfter(timestamp_map, timestamp_future, ot)
              ELSE timestamp_map
    /\ polls' = polls + 1
    /\ pc' = "await"
    /\ UNCHANGED <<inputVars, encoder, gpuVars, hostVars>>

\* device.poll(Maintain::Wait): blocks until the submitted work is done, and
\* fires the callbacks of the pending map requests
DevicePoll ==
    /\ pc = "poll"
    /\ GpuDone
    /\ \E ob \in {"ok", "err"}, ot \in {"ok", "err"} :
         /\ buffer_future' = Resolved(buffer_future, ob)
         /\ timestamp_future' = Resolved(timestamp_future, ot)
         /\ readback_map' = MapAfter(readback_map, buffer_future, ob)
         /\ timestamp_map' = MapAfter(timestamp_map, timestamp_future, ot)
    /\ polls' = polls + 1
    /\ pc' = "await"
    /\ UNCHANGED <<inputVars, encoder, gpuVars, hostVars>>

\* join(buffer_future, timestamp_future).await, and the `if let (Ok, Ok)`:
\* the await completes only once both futures are resolved
AwaitJoin ==
    /\ pc = "await"
    /\ buffer_future \in {"ok", "err"}
    /\ timestamp_future \in {"ok", "err"}
    /\ pc' = IF buffer_future = "ok" /\ timestamp_future = "ok"
             THEN "get_data" ELSE "done"
    /\ UNCHANGED <<inputVars, encoder, gpuVars, mapVars, hostVars>>

\* buffer_slice.get_mapped_range(): panics unless the buffer is mapped
GetMappedRangeData ==
    /\ pc = "get_data"
    /\ IF readback_map = "mapped"
       THEN /\ data' = readback_buffer
            /\ ranges_read' = ranges_read \cup {"readback"}
            /\ pc' = "get_timing_data"
       ELSE /\ pc' = "panic_not_mapped"
            /\ UNCHANGED <<data, ranges_read>>
    /\ UNCHANGED <<max, next_pair, inputVars, encoder, gpuVars, mapVars, timing_data, result,
                   timings, lines>>

\* timestamp_slice.get_mapped_range()
GetMappedRangeTiming ==
    /\ pc = "get_timing_data"
    /\ IF timestamp_map = "mapped"
       THEN /\ timing_data' = timestamp_buffer
            /\ ranges_read' = ranges_read \cup {"timestamp"}
            /\ pc' = "collect_result"
       ELSE /\ pc' = "panic_not_mapped"
            /\ UNCHANGED <<timing_data, ranges_read>>
    /\ UNCHANGED <<max, next_pair, inputVars, encoder, gpuVars, mapVars, data, result, timings,
                   lines>>

\* data.chunks_exact(4).map(u32::from_ne_bytes).collect()
CollectResult ==
    /\ pc = "collect_result"
    /\ result' = [i \in 1..Len(ChunksExact(data, 4)) |->
                    U32FromNeBytes(ChunksExact(data, 4)[i])]
    /\ pc' = "collect_timings"
    /\ UNCHANGED <<max, next_pair, inputVars, encoder, gpuVars, mapVars, data, timing_data,
                   timings, lines, ranges_read>>

\* timing_data.chunks_exact(8).map(u64::from_ne_bytes).collect()
CollectTimings ==
    /\ pc = "collect_timings"
    /\ timings' = [i \in 1..Len(ChunksExact(timing_data, 8)) |->
                    U64FromNeBytes(ChunksExact(timing_data, 8)[i])]
    /\ pc' = "unmap_readback"
    /\ UNCHANGED <<max, next_pair, inputVars, encoder, gpuVars, mapVars, data, timing_data,
                   result, lines, ranges_read>>

\* drop(data); readback_buffer.unmap()
UnmapReadback ==
    /\ pc = "unmap_readback"
    /\ data' = <<>>
    /\ readback_map' = "unmapped"
    /\ pc' = "unmap_timestamp"
    /\ UNCHANGED <<max, next_pair, inputVars, encoder, gpuVars, timestamp_map, buffer_future,
                   timestamp_future, polls, timing_data, result, timings, lines,
                   ranges_read>>

\* drop(timing_data); timestamp_buffer.unmap()
UnmapTimestamp ==
    /\ pc = "unmap_timestamp"
    /\ timing_data' = <<>>
    /\ timestamp_map' = "unmapped"
    /\ pc' = "report"
    /\ UNCHANGED <<max, next_pair, inputVars, encoder, gpuVars, readback_map, buffer_future,
                   timestamp_future, polls, data, result, timings, lines,
                   ranges_read>>

\* let mut max = 0; and the iterator src_range.zip(result.iter().copied())
ReportBegin ==
    /\ pc = "report"
    /\ max' = <<0, 0>>
    /\ next_pair' = 1
    /\ pc' = "report_loop"
    /\ UNCHANGED <<inputVars, encoder, gpuVars, mapVars, data, timing_data,
                   result, timings, lines, ranges_read>>

\* mutant: the overflow branch prints its line and does not break
ReportIterNoBreak ==
    /\ pc = "report_loop"
    /\ next_pair <= N
    /\ next_pair <= Len(result)
    /\ LET src == next_pair
           out == result[next_pair]
       IN  /\ IF out = U32Max
              THEN /\ lines' = Append(lines, [kind |-> "overflow", src |-> src])
                   /\ UNCHANGED max
              ELSE IF U32Gt(out, max)
              THEN /\ max' = out
                   /\ lines' = Append(lines, [kind |-> "max", src |-> src, out |-> out])
              ELSE UNCHANGED <<max, lines>>
           /\ next_pair' = next_pair + 1
           /\ pc' = "report_loop"
    /\ UNCHANGED <<inputVars, encoder, gpuVars, mapVars, data, timing_data,
                   result, timings, ranges_read>>

\* one turn of `for (src, out) in ..`: the pair is (next_pair, result[next_pair]),
\* since the k-th element of src_range = 1..top is k
ReportIter ==
    /\ pc = "report_loop"
    /\ next_pair <= N
    /\ next_pair <= Len(result)
    /\ LET src == next_pair
           out == result[next_pair]
       IN  IF out = U32Max
           THEN /\ lines' = Append(lines, [kind |-> "overflow", src |-> src])
                /\ pc' = "took"
                /\ UNCHANGED <<max, next_pair>>
           ELSE /\ IF U32Gt(out, max)
                   THEN /\ max' = out
                        /\ lines' = Append(lines, [kind |-> "max", src |-> src, out |-> out])
                   ELSE UNCHANGED <<max, lines>>
                /\ next_pair' = next_pair + 1
                /\ pc' = "report_loop"
    /\ UNCHANGED <<inputVars, encoder, gpuVars, mapVars, data, timing_data,
                   result, timings, ranges_read>>

\* the zip iterator is exhausted: the loop ends
ReportEnd ==
    /\ pc = "report_loop"
    /\ (next_pair > N \/ next_pair > Len(result))
    /\ pc' = "took"
    /\ UNCHANGED <<inputVars, encoder, gpuVars, mapVars, hostVars>>

\* println!("Took: {:?}", Duration::from_nanos(
\*     ((timings[1] - timings[0]) as f64 * f64::from(timestamp_period)) as u64)).
\* When timings[1] < timings[0] the u64 subtraction overflows: a build with
\* overflow checks panics, a build without them wraps modulo 2^64.
PrintTook ==
    /\ pc = "took"
    /\ IF Len(timings) < 2
       THEN /\ pc' = "panic_index"
            /\ UNCHANGED lines
       ELSE \E diff \in {U64WrappingSub(timings[2], timings[1])} :
            \E f \in {F64FromU64(diff)} :
            \E product \in {F64Mul(f, timestamp_period)} :
               \/ /\ U64Lt(timings[2], timings[1])
                  /\ pc' = "panic_overflow"
                  /\ UNCHANGED lines
               \/ /\ pc' = "done"
                  /\ lines' = Append(lines,
                        [kind |-> "took", nanos |-> U64FromF64(product)])
    /\ UNCHANGED <<max, next_pair, inputVars, encoder, gpuVars, mapVars, data,
                   timing_data, result, timings, ranges_read>>

Next ==
    \/ RequestAdapter
    \/ RequestDevice
    \/ CreateReadbackBuffer
    \/ CreateStorageBuffer
    \/ CreateTimestampBuffer
    \/ BeginComputePass
    \/ SetBindGroup
    \/ SetPipeline
    \/ WriteTimestamp0
    \/ Dispatch
    \/ WriteTimestamp1
    \/ EndComputePass
    \/ CopyBufferToBuffer
    \/ ResolveQuerySet
    \/ Submit
    \/ MapTimestamp
    \/ MapBuffer
    \/ GpuExecute
    \/ DevicePoll
    \/ AwaitJoin
    \/ GetMappedRangeData
    \/ GetMappedRangeTiming
    \/ CollectResult
    \/ CollectTimings
    \/ UnmapReadback
    \/ UnmapTimestamp
    \/ ReportBegin
    \/ ReportIter
    \/ ReportEnd
    \/ PrintTook

Spec == Init /\ [][Next]_vars

\* the steps of the host thread
HostStep ==
    \/ RequestAdapter
    \/ RequestDevice
    \/ CreateReadbackBuffer
    \/ CreateStorageBuffer
    \/ CreateTimestampBuffer
    \/ BeginComputePass
    \/ SetBindGroup
    \/ SetPipeline
    \/ WriteTimestamp0
    \/ Dispatch
    \/ WriteTimestamp1
    \/ EndComputePass
    \/ CopyBufferToBuffer
    \/ ResolveQuerySet
    \/ Submit
    \/ MapTimestamp
    \/ MapBuffer
    \/ DevicePoll
    \/ AwaitJoin
    \/ GetMappedRangeData
    \/ GetMappedRangeTiming
    \/ CollectResult
    \/ CollectTimings
    \/ UnmapReadback
    \/ UnmapTimestamp
    \/ ReportBegin
    \/ ReportIter
    \/ ReportEnd
    \/ PrintTook

\* the host thread keeps running start_internal, and the GPU keeps executing
\* the work submitted to it
FairSpec == Spec /\ WF_vars(HostStep) /\ WF_vars(GpuExecute)

\* ------------------------------------------------------ derived notions

PanicStates == {"panic_adapter", "panic_device", "panic_not_mapped",
                "panic_index", "panic_overflow"}

\* start_internal has returned or unwound
Terminal == pc = "done" \/ pc \in PanicStates

\* how the run ended, as its caller sees it
RunOutcome ==
    IF pc = "done" THEN "returned"
    ELSE IF pc \in PanicStates THEN "failed"
    ELSE "running"

BothOk == buffer_future = "ok" /\ timestamp_future = "ok"

MapFailure == buffer_future = "err" \/ timestamp_future = "err"

\* the typed vectors result and timings have been collected
Collected ==
    \/ pc \in {"unmap_readback", "unmap_timestamp", "report", "report_loop",
               "took", "panic_index", "panic_overflow"}
    \/ pc = "done" /\ BothOk

\* the report loop has ended
LoopEnded ==
    \/ pc \in {"took", "panic_index", "panic_overflow"}
    \/ pc = "done" /\ BothOk

\* the state of the readback, in the terms of the design
ReadbackState ==
    IF queue = <<>> THEN (IF pc = "submit" THEN "Recorded" ELSE "Recording")
    ELSE IF buffer_future = "none" /\ timestamp_future = "none" THEN "Submitted"
    ELSE IF pc \in {"map_buffer", "poll", "await"} THEN "MappingRequested"
    ELSE IF MapFailure THEN "MapFailed"
    ELSE IF pc \in {"get_data", "get_timing_data", "collect_result",
                    "collect_timings", "unmap_readback", "unmap_timestamp",
                    "panic_not_mapped"}
         THEN "Mapped"
    ELSE "Extracted"

ReadbackOrder ==
    {<<"Recording", "Recorded">>, <<"Recorded", "Submitted">>,
     <<"Submitted", "MappingRequested">>, <<"MappingRequested", "Mapped">>,
     <<"MappingRequested", "MapFailed">>, <<"Mapped", "Extracted">>}

\* index of the first sentinel of result, Len(result) + 1 when there is none
FirstSentinel ==
    IF \E i \in 1..Len(result) : result[i] = U32Max
    THEN CHOOSE i \in 1..Len(result) :
            /\ result[i] = U32Max
            /\ \A j \in 1..(i - 1) : result[j] # U32Max
    ELSE Len(result) + 1

IsMaxLine(l) == l.kind = "max"

IsReportLine(l) == l.kind \in {"max", "overflow"}

MaxLines == SelectSeq(lines, IsMaxLine)

ReportLines == SelectSeq(lines, IsReportLine)

CeilDiv(a, b) == (a + b - 1) \div b

\* the commands of one run, by position in the command buffer
ExpectedOps ==
    <<"begin_compute_pass", "set_bind_group", "set_pipeline", "write_timestamp",
      "dispatch", "write_timestamp", "end_compute_pass", "copy_buffer_to_buffer",
      "resolve_query_set">>

HasOp(cmds, op) == \E j \in 1..Len(cmds) : cmds[j].op = op

\* --------------------------------------------------------------- claims

\* C1: the single dispatch recorded by start_internal uses ceil(N / 64)
\* workgroups in X and 1 in Y and Z, so that every one of the N input
\* elements is covered by some workgroup.
C1_DispatchCoversInput ==
    \A j \in 1..Len(encoder) :
        encoder[j].op = "dispatch" =>
            /\ encoder[j].x = CeilDiv(N, WorkgroupSize)
            /\ encoder[j].y = 1
            /\ encoder[j].z = 1
            /\ encoder[j].x * WorkgroupSize >= N

\* C2 as stated: the length of the output sequence extracted from the staging
\* buffer equals N rounded down to a multiple of the workgroup size.
C2_OutputLengthRoundedDown ==
    Collected => Len(result) = (N \div WorkgroupSize) * WorkgroupSize

\* C2 as amended: the output sequence has length N; its first
\* floor(N / 64) * 64 elements are the kernel's outputs for the inputs
\* 1, 2, ..; the trailing elements are never processed and appear in the
\* output as the unchanged input values.
C2_OutputLengthIsN ==
    Collected =>
        /\ Len(result) = N
        /\ \A i \in 1..N :
              result[i] = IF i <= (N \div WorkgroupSize) * WorkgroupSize
                          THEN KernelOut(kernel, U32FromInt(i))
                          ELSE U32FromInt(i)

C2_Witness ==
    /\ Collected
    /\ N > WorkgroupSize
    /\ N % WorkgroupSize # 0
    /\ kernel = "mixed"

\* C3: on every exit path reached after a map request has succeeded, the
\* mapped buffer is unmapped before the harness returns: in no terminal
\* state is the staging buffer or the timestamp-resolve buffer still mapped.
C3_UnmappedOnExit ==
    Terminal => readback_map # "mapped" /\ timestamp_map # "mapped"

\* C4: if either map future completes with a failure, the run fails, no
\* mapped range is read and no line is printed.
C4_MapFailureFailsRun ==
    (Terminal /\ MapFailure) =>
        /\ RunOutcome = "failed"
        /\ ranges_read = {}
        /\ lines = <<>>

\* C5: the values of the new-maximum lines are strictly increasing, and the
\* last of them is the maximum of the outputs before the first sentinel (of
\* all outputs when there is none), including when that maximum is 0.
C5_LastReportIsMaximum ==
    LoopEnded =>
        /\ \A j \in 1..(Len(MaxLines) - 1) :
              U32Gt(MaxLines[j + 1].out, MaxLines[j].out)
        /\ FirstSentinel > 1 =>
              /\ MaxLines # <<>>
              /\ \A i \in 1..(FirstSentinel - 1) :
                    ~U32Gt(result[i], MaxLines[Len(MaxLines)].out)
              /\ \E i \in 1..(FirstSentinel - 1) :
                    result[i] = MaxLines[Len(MaxLines)].out

\* C6: with k the first index whose output is the sentinel, the report loop
\* prints one overflow line, for k, and then stops: no report line is ever
\* printed for an index greater than k, the overflow line is the last report
\* line, and when every output is the sentinel the only report line is the
\* overflow line for input 1.
C6_OverflowShortCircuit ==
    LET k   == FirstSentinel
        rep == ReportLines
    IN  /\ \A j \in 1..Len(rep) :
              /\ rep[j].src <= k
              /\ rep[j].kind = "overflow" => rep[j].src = k /\ j = Len(rep)
              /\ rep[j].kind = "max" => rep[j].src < k
        /\ (LoopEnded /\ k <= Len(result)) =>
              /\ rep # <<>>
              /\ rep[Len(rep)] = [kind |-> "overflow", src |-> k]
        /\ (LoopEnded /\ result # <<>> /\ \A i \in 1..Len(result) : result[i] = U32Max) =>
              rep = <<[kind |-> "overflow", src |-> 1]>>

C6_Witness ==
    /\ LoopEnded
    /\ FirstSentinel > 1
    /\ FirstSentinel < Len(result)
    /\ Len(ReportLines) >= 3
    /\ ReportLines[Len(ReportLines)].kind = "overflow"

\* C7: for the two ticks read from the resolve buffer, tick[1] >= tick[0]:
\* the subtraction tick[1] - tick[0] never underflows, neither wrapping
\* modulo 2^64 nor panicking.
C7_TicksNeverUnderflow ==
    /\ Len(timings) = 2 => ~U64Lt(timings[2], timings[1])
    /\ pc # "panic_overflow"

\* C8: every run records into one command buffer, in this order and with no
\* step skipped: begin compute pass, bind group 0, pipeline, timestamp 0,
\* dispatch, timestamp 1, end of pass, copy of the N * 4 bytes of the storage
\* buffer to the staging buffer, resolve of query slots 0..2; and that one
\* command buffer is what is submitted.
C8_RecordingOrder ==
    /\ Len(encoder) <= Len(ExpectedOps)
    /\ \A j \in 1..Len(encoder) :
          /\ encoder[j].op = ExpectedOps[j]
          /\ j = 2 => encoder[j].index = 0
          /\ j = 4 => encoder[j].slot = 0
          /\ j = 6 => encoder[j].slot = 1
          /\ j = 8 => encoder[j].size = N * 4
          /\ j = 9 => encoder[j].first = 0 /\ encoder[j].count = 2
    /\ queue # <<>> => queue = <<encoder>> /\ Len(encoder) = Len(ExpectedOps)
    /\ pc \notin {"request_adapter", "request_device", "create_readback_buffer",
                  "create_storage_buffer", "create_timestamp_buffer",
                  "begin_compute_pass", "set_bind_group", "set_pipeline",
                  "write_timestamp_0", "dispatch", "write_timestamp_1",
                  "end_compute_pass", "copy_buffer_to_buffer",
                  "resolve_query_set", "submit", "panic_adapter", "panic_device"}
          => queue # <<>>

C8_Witness ==
    /\ queue # <<>>
    /\ N > WorkgroupSize
    /\ pc = "done"

\* C9: the copy and the resolve are in the same submission as the dispatch,
\* the submission precedes every map request, and the readback only moves
\* Recorded -> Submitted -> MappingRequested -> Mapped -> Extracted (or from
\* MappingRequested to the map failure).
C9_SubmitBeforeMap ==
    [][ /\ ReadbackState' # ReadbackState =>
              <<ReadbackState, ReadbackState'>> \in ReadbackOrder
        /\ (buffer_future' # "none" \/ timestamp_future' # "none") =>
              /\ Len(queue') = 1
              /\ HasOp(queue'[1], "dispatch")
              /\ HasOp(queue'[1], "copy_buffer_to_buffer")
              /\ HasOp(queue'[1], "resolve_query_set")
      ]_vars

C9_Witness ==
    /\ ReadbackState = "Extracted"
    /\ pc = "done"

\* C10: the blocking poll is issued exactly once, after both map requests
\* and before the join is awaited; both futures are resolved when awaited,
\* and every submitted run ends in Extracted or in the map failure.
C10_PollOnceThenTerminates ==
    /\ [](/\ polls <= 1
          /\ polls = 1 => buffer_future # "none" /\ timestamp_future # "none"
          /\ pc = "await" =>
                /\ polls = 1
                /\ buffer_future \in {"ok", "err"}
                /\ timestamp_future \in {"ok", "err"}
          /\ ReadbackState \in {"Mapped", "Extracted", "MapFailed"} => polls = 1)
    /\ (ReadbackState = "Submitted") ~> (Terminal /\ ReadbackState \in {"Extracted", "MapFailed"})

C10_Witness ==
    /\ pc = "await"
    /\ polls = 1
    /\ buffer_future = "ok"
    /\ timestamp_future = "err"

====
